---- MODULE Spec2Model ----
(***************************************************************************)
(* Market-making simulator: the quote engine (generate_quotes), the        *)
(* execution simulator (simulate_execution) and the pipeline of main.py.   *)
(*                                                                         *)
(* Floating-point numbers are modelled in fixed point.  A float is either  *)
(* NaN or Num(v) with v an integer:                                        *)
(*   prices, cash and pnl   in micro-dollars          (PriceUnit = 10^6)   *)
(*   signals, probabilities, random draws, returns,                        *)
(*   standard deviations    in ten-thousandths        (RatioUnit = 10^4)   *)
(* A pandas Series is a sequence indexed 1..n (row t of the source is      *)
(* element t+1); a DataFrame is a function from column names to sequences. *)
(***************************************************************************)
EXTENDS Integers, Sequences, FiniteSets, TLC

PriceUnit == 10^6
RatioUnit == 10^4

(***************************************************************************)
(* Program constants.                                                      *)
(***************************************************************************)
base_spread_default == 50000
inventory_penalty == 10000
signal_strength == 20000
window == 10
max_inventory == 10
aggressiveness_scale == 20
lookback == 5
initial_price == 100000000

(***************************************************************************)
(* Bounds of the model.                                                    *)
(***************************************************************************)
MaxLen == 3
ShortLen == 5
QuoteLen == 11
InvMax == 11
NMinutes == 11

(***************************************************************************)
(* IEEE-754 / NumPy arithmetic with NaN.                                   *)
(***************************************************************************)
NaN == <<>>
Num(v) == <<v>>
IsNaN(x) == x = NaN
Val(x) == x[1]

FAdd(a, b) == IF IsNaN(a) \/ IsNaN(b) THEN NaN ELSE Num(Val(a) + Val(b))
FSub(a, b) == IF IsNaN(a) \/ IsNaN(b) THEN NaN ELSE Num(Val(a) - Val(b))
FLt(a, b) == ~IsNaN(a) /\ ~IsNaN(b) /\ Val(a) < Val(b)

\* integer quotient rounded toward zero
Quot(a, b) == IF a >= 0 THEN a \div b ELSE -((-a) \div b)
Abs(a) == IF a >= 0 THEN a ELSE -a

\* a * r for a price a and a ratio r (one of them may be a plain count)
FScale(a, r) == IF IsNaN(a) \/ IsNaN(r) THEN NaN ELSE Num(Quot(Val(a) * Val(r), RatioUnit))

RECURSIVE SqrtSearch(_, _, _)
SqrtSearch(n, lo, hi) ==
    IF lo >= hi THEN lo
    ELSE LET m == (lo + hi + 1) \div 2
         IN IF m * m <= n THEN SqrtSearch(n, m, hi) ELSE SqrtSearch(n, lo, m - 1)
\* floor of the square root
ISqrt(n) == SqrtSearch(n, 0, 46340)

RECURSIVE TaylorSum(_, _, _)
TaylorSum(z, term, n) ==
    IF term = 0 THEN 0 ELSE term + TaylorSum(z, Quot(term * z, n * RatioUnit), n + 1)
\* np.exp on ratios: series for small arguments, squaring of exp(y/2) otherwise
RECURSIVE Exp(_)
Exp(y) ==
    IF Abs(y) <= RatioUnit \div 2 THEN TaylorSum(y, RatioUnit, 1)
    ELSE LET h == Exp(Quot(y, 2)) IN (h * h) \div RatioUnit

\* np.tanh on ratios, computed from exp(-2|x|)
Tanh(x) ==
    LET a == Abs(x)
        e == Exp(-2 * a)
        t == ((RatioUnit - e) * RatioUnit) \div (RatioUnit + e)
    IN IF x >= 0 THEN t ELSE -t

(***************************************************************************)
(* Series helpers.                                                         *)
(***************************************************************************)
Max(a, b) == IF a >= b THEN a ELSE b
Const(n, v) == [t \in 1..n |-> v]
\* value of a Series at label t, NaN where the label is missing (alignment)
At(s, t) == IF t \in DOMAIN s THEN s[t] ELSE NaN

RECURSIVE SumTo(_, _)
SumTo(f, n) == IF n = 0 THEN 0 ELSE f[n] + SumTo(f, n - 1)

\* Series.rolling(w).std() at row t, before any fillna: the sample standard
\* deviation (ddof = 1) of rows t-w+1..t, NaN when the window is incomplete
\* or holds a NaN.  Deviations are taken from the first row of the window.
RollingStdRaw(s, w, t) ==
    IF t < w \/ \E j \in (t - w + 1)..t : IsNaN(s[j]) THEN NaN
    ELSE LET d == [j \in 1..w |->
                     (Val(s[t - w + j]) - Val(s[t - w + 1])) \div (PriceUnit \div RatioUnit)]
             sq == [j \in 1..w |-> d[j] * d[j]]
         IN Num(ISqrt((w * SumTo(sq, w) - SumTo(d, w) * SumTo(d, w)) \div (w * (w - 1))))

FillNa0(x) == IF IsNaN(x) THEN Num(0) ELSE x

(***************************************************************************)
(* quote_engine.generate_quotes                                            *)
(***************************************************************************)
\* variant: the undefined rolling std is not filled with 0
RollingVolatility_NoFill(mid_prices, t) ==
    IF t \in DOMAIN mid_prices THEN RollingStdRaw(mid_prices, window, t) ELSE NaN

\* rolling_volatility = mid_prices.rolling(window=10).std().fillna(0)
RollingVolatility(mid_prices, t) ==
    IF t \in DOMAIN mid_prices THEN FillNa0(RollingStdRaw(mid_prices, window, t)) ELSE NaN

\* adj_vol = 1 + rolling_volatility
AdjVol(mid_prices, t) == FAdd(Num(RatioUnit), RollingVolatility(mid_prices, t))

\* inventory * inventory_penalty * adj_vol
Penalty(mid_prices, inventory, t) ==
    IF t \in DOMAIN inventory
    THEN FScale(Num(inventory[t] * inventory_penalty), AdjVol(mid_prices, t))
    ELSE NaN

\* signals * signal_strength
SignalShift(signals, t) == FScale(Num(signal_strength), At(signals, t))

\* variant: the inventory penalty is added instead of subtracted
RawQuote_AddPenalty(side, mid_prices, signals, inventory, spread, t) ==
    FAdd(FAdd(FAdd(At(mid_prices, t), Num(side * (spread \div 2))),
              Penalty(mid_prices, inventory, t)),
         SignalShift(signals, t))

\* mid_prices -/+ base_spread / 2 - inventory * inventory_penalty * adj_vol
\*            + signals * signal_strength          (side = -1 bid, +1 ask)
RawQuote(side, mid_prices, signals, inventory, spread, t) ==
    FAdd(FSub(FAdd(At(mid_prices, t), Num(side * (spread \div 2))),
              Penalty(mid_prices, inventory, t)),
         SignalShift(signals, t))

\* variant: the bid is withdrawn only strictly above the limit
LimitBid_Strict(inventory, t, raw) ==
    IF t \in DOMAIN inventory /\ inventory[t] > max_inventory THEN NaN ELSE raw

\* position limits: the loop over range(len(inventory))
LimitBid(inventory, t, raw) ==
    IF t \in DOMAIN inventory /\ inventory[t] >= max_inventory THEN NaN ELSE raw

LimitAsk(inventory, t, raw) ==
    IF t \in DOMAIN inventory /\ inventory[t] >= max_inventory THEN raw
    ELSE IF t \in DOMAIN inventory /\ inventory[t] <= -max_inventory THEN NaN
    ELSE raw

\* the returned DataFrame: its index is the union of the three indexes
generate_quotes(mid_prices, signals, inventory, spread) ==
    LET n == Max(Len(mid_prices), Max(Len(signals), Len(inventory)))
    IN [bid |-> [t \in 1..n |->
                   LimitBid(inventory, t, RawQuote(-1, mid_prices, signals, inventory, spread, t))],
        ask |-> [t \in 1..n |->
                   LimitAsk(inventory, t, RawQuote(1, mid_prices, signals, inventory, spread, t))]]

(***************************************************************************)
(* market_simulator.generate_price_series                                  *)
(***************************************************************************)
\* one-minute log returns drawn by np.random.normal
Returns == {-10, 0, 10}
\* the return paths of the model: at most one minute with a non-zero return
ReturnPaths(n) == { [t \in 1..n |-> IF t = k THEN r ELSE 0] : k \in 1..n, r \in Returns }

\* prices = initial_price * np.exp(np.cumsum(returns))
Prices(returns) ==
    [t \in 1..Len(returns) |-> Num((initial_price \div RatioUnit) * Exp(SumTo(returns, t)))]

generate_price_series(returns) ==
    LET prices == Prices(returns)
    IN [mid |-> prices,
        bid |-> [t \in 1..Len(returns) |-> FSub(prices[t], Num(base_spread_default \div 2))],
        ask |-> [t \in 1..Len(returns) |-> FAdd(prices[t], Num(base_spread_default \div 2))]]

(***************************************************************************)
(* alpha_signal.generate_momentum_signal                                   *)
(***************************************************************************)
\* np.tanh(price.diff(lb) / price.rolling(lb).std()).fillna(0) at row t
MomentumSignal(price_series, lb, t) ==
    LET momentum == IF t > lb THEN FSub(price_series[t], price_series[t - lb]) ELSE NaN
        std == RollingStdRaw(price_series, lb, t)
        m == Val(momentum) \div (PriceUnit \div RatioUnit)
    IN IF IsNaN(momentum) \/ IsNaN(std) THEN Num(0)
       ELSE IF Val(std) = 0
            THEN (IF m = 0 THEN Num(0) ELSE IF m > 0 THEN Num(RatioUnit) ELSE Num(-RatioUnit))
            ELSE Num(Tanh(Quot(m * RatioUnit, Val(std))))

generate_momentum_signal(price_series, lb) ==
    [t \in 1..Len(price_series) |-> MomentumSignal(price_series, lb, t)]

(***************************************************************************)
(* DataFrames and files                                                    *)
(***************************************************************************)
NoFrame == <<>>
\* df[name] = col
SetCol(frame, name, col) ==
    [c \in (DOMAIN frame) \cup {name} |-> IF c = name THEN col ELSE frame[c]]
\* a Series assigned to a column is aligned to the frame's index
Reindex(col, n) == [t \in 1..n |-> At(col, t)]
Rows(frame) == IF frame = NoFrame THEN 0 ELSE Len(frame[CHOOSE c \in DOMAIN frame : TRUE])

(***************************************************************************)
(* execution_simulator.simulate_execution, one row of the loop             *)
(***************************************************************************)
\* the values np.random.rand() returns in the model
Draws == {0, 2000, 5000, 9999}

\* np.exp(-aggressiveness_scale * dist)
FillProb(dist) ==
    IF IsNaN(dist) THEN NaN
    ELSE Num(Exp(Quot(-aggressiveness_scale * Val(dist), PriceUnit \div RatioUnit)))

\* variant: a buy pays the ask price
Fill_BuyAtAsk(draw, bid, ask, prob_bid, prob_ask, inv, csh) ==
    IF FLt(Num(draw), prob_ask)
    THEN [inventory |-> inv - 1, cash |-> csh + Val(ask), exec_type |-> "sell"]
    ELSE IF FLt(Num(draw), FAdd(prob_ask, prob_bid))
         THEN [inventory |-> inv + 1, cash |-> csh - Val(ask), exec_type |-> "buy"]
         ELSE [inventory |-> inv, cash |-> csh, exec_type |-> "None"]

\* variant: the bid is tested before the ask
Fill_BidFirst(draw, bid, ask, prob_bid, prob_ask, inv, csh) ==
    IF FLt(Num(draw), prob_bid)
    THEN [inventory |-> inv + 1, cash |-> csh - Val(bid), exec_type |-> "buy"]
    ELSE IF FLt(Num(draw), FAdd(prob_ask, prob_bid))
         THEN [inventory |-> inv - 1, cash |-> csh + Val(ask), exec_type |-> "sell"]
         ELSE [inventory |-> inv, cash |-> csh, exec_type |-> "None"]

\* the if / elif on the draw
Fill(draw, bid, ask, prob_bid, prob_ask, inv, csh) ==
    IF FLt(Num(draw), prob_ask)
    THEN [inventory |-> inv - 1, cash |-> csh + Val(ask), exec_type |-> "sell"]
    ELSE IF FLt(Num(draw), FAdd(prob_ask, prob_bid))
         THEN [inventory |-> inv + 1, cash |-> csh - Val(bid), exec_type |-> "buy"]
         ELSE [inventory |-> inv, cash |-> csh, exec_type |-> "None"]

\* variant: every row is valued with the final inventory
MarkToMarket_Final(cash_col, inventory_col, mid_col) ==
    [t \in 1..Len(mid_col) |->
        IF IsNaN(mid_col[t]) THEN NaN
        ELSE Num(cash_col[t] + inventory_col[Len(inventory_col)] * Val(mid_col[t]))]

\* df['pnl'] = df['cash'] + df['inventory'] * df['mid']
MarkToMarket(cash_col, inventory_col, mid_col) ==
    [t \in 1..Len(mid_col) |->
        IF IsNaN(mid_col[t]) THEN NaN
        ELSE Num(cash_col[t] + inventory_col[t] * Val(mid_col[t]))]

(***************************************************************************)
(* Python call binding: a keyword that names no parameter is a TypeError   *)
(***************************************************************************)
simulate_execution_params == {"df"}
Binds(params, keywords) == keywords \subseteq params

(***************************************************************************)
(* State                                                                   *)
(***************************************************************************)
VARIABLES
    pc,                  \* position of the caller (main.py, or a direct caller of the two functions)
    df,                  \* the caller's DataFrame
    args,                \* arguments of the generate_quotes call
    quotes,              \* DataFrame returned by generate_quotes
    files,               \* CSV files written, by path
    exec_pc,             \* simulate_execution: "idle", "loop", "returned", "saved"
    caller,              \* who called simulate_execution: "none", "direct", "script"
    xdf,                 \* simulate_execution's df
    i,                   \* rows of xdf already iterated
    inventory,
    cash,
    inventory_history,
    cash_history,
    execution_log,
    rand                 \* the value np.random.rand() returned in the last iteration, -1 before

quoteVars == <<df, args, quotes, files>>
execVars == <<exec_pc, caller, xdf, i, inventory, cash, inventory_history, cash_history,
              execution_log, rand>>
vars == <<pc, df, args, quotes, files, exec_pc, caller, xdf, i, inventory, cash,
          inventory_history, cash_history, execution_log, rand>>

ExecIdle ==
    /\ exec_pc = "idle" /\ caller = "none" /\ xdf = NoFrame /\ i = 0
    /\ inventory = 0 /\ cash = 0
    /\ inventory_history = <<>> /\ cash_history = <<>>
    /\ execution_log = <<>> /\ rand = -1

(***************************************************************************)
(* Direct calls of the two functions                                       *)
(***************************************************************************)
Spreads == {base_spread_default, 4 * base_spread_default}
ProbeMid == {Num(initial_price + 100000), NaN}
ProbeSig == {Num(0), Num(RatioUnit \div 2), NaN}
ProbeInv == {-(max_inventory + 1), -max_inventory, 0, max_inventory, max_inventory + 1}
\* len(signals) - len(mid_prices), len(inventory) - len(mid_prices)
Shapes == {<<0, 0>>, <<-1, 0>>, <<0, -1>>, <<0, 1>>}
Probe(n, p, background, v) == [t \in 1..n |-> IF t = p THEN v ELSE background]

\* short inputs: constant series but for one row
Init ==
    /\ pc = "quotes"
    /\ \E p \in 1..MaxLen, m \in ProbeMid, s \in ProbeSig, v \in ProbeInv,
          sh \in Shapes, sp \in Spreads :
          args = [mid_prices |-> Probe(MaxLen, p, Num(initial_price), m),
                  signals |-> Probe(MaxLen + sh[1], p, Num(0), s),
                  inventory |-> Probe(MaxLen + sh[2], p, 0, v),
                  base_spread |-> sp]
    /\ df = [mid |-> args.mid_prices]
    /\ quotes = NoFrame
    /\ files = <<>>
    /\ ExecIdle

\* long inputs: a price path, a constant signal, a constant inventory
InitVol ==
    /\ pc = "quotes"
    /\ \E n \in {ShortLen, QuoteLen}, s \in {Num(-RatioUnit), Num(0), Num(RatioUnit \div 2)},
          v \in (-InvMax)..InvMax, sp \in Spreads :
          \E r \in ReturnPaths(n) :
              args = [mid_prices |-> Prices(r),
                      signals |-> Const(n, s),
                      inventory |-> Const(n, v),
                      base_spread |-> sp]
    /\ df = [mid |-> args.mid_prices]
    /\ quotes = NoFrame
    /\ files = <<>>
    /\ ExecIdle

\* quotes = generate_quotes(mid, signal, inventory);
\* df['quoted_bid'] = quotes['bid']; df['quoted_ask'] = quotes['ask']
CallQuotes ==
    /\ pc = "quotes"
    /\ LET q == generate_quotes(args.mid_prices, args.signals, args.inventory, args.base_spread)
       IN /\ quotes' = q
          /\ df' = SetCol(SetCol(df, "quoted_bid", Reindex(q.bid, Rows(df))),
                          "quoted_ask", Reindex(q.ask, Rows(df)))
    /\ pc' = "execute"
    /\ UNCHANGED <<args, files>>
    /\ UNCHANGED execVars

\* df = simulate_execution(df): entry of the function
CallExec ==
    /\ pc = "execute"
    /\ exec_pc = "idle"
    /\ pc' = "executing"
    /\ exec_pc' = "loop"
    /\ caller' = "direct"
    /\ xdf' = df
    /\ i' = 0 /\ inventory' = 0 /\ cash' = 0
    /\ inventory_history' = <<>> /\ cash_history' = <<>>
    /\ execution_log' = <<>> /\ rand' = -1
    /\ UNCHANGED quoteVars

\* one iteration of "for i, row in df.iterrows()"
ExecStep ==
    /\ exec_pc = "loop"
    /\ i < Rows(xdf)
    /\ LET mid == xdf.mid[i + 1]
           bid == xdf.quoted_bid[i + 1]
           ask == xdf.quoted_ask[i + 1]
           dist_bid == FSub(mid, bid)
           dist_ask == FSub(ask, mid)
           prob_bid == FillProb(dist_bid)
           prob_ask == FillProb(dist_ask)
       IN \E draw \in Draws :
            LET r == Fill(draw, bid, ask, prob_bid, prob_ask, inventory, cash)
            IN /\ inventory' = r.inventory
               /\ cash' = r.cash
               /\ inventory_history' = Append(inventory_history, r.inventory)
               /\ cash_history' = Append(cash_history, r.cash)
               /\ execution_log' = Append(execution_log, r.exec_type)
               /\ rand' = draw
    /\ i' = i + 1
    /\ UNCHANGED <<pc, exec_pc, caller, xdf>>
    /\ UNCHANGED quoteVars

\* after the loop: the four columns are assigned and df is returned
ExecFinish ==
    /\ exec_pc = "loop"
    /\ i = Rows(xdf)
    /\ xdf' = SetCol(SetCol(SetCol(SetCol(xdf, "inventory", inventory_history),
                                   "cash", cash_history),
                            "execution", execution_log),
                     "pnl", MarkToMarket(cash_history, inventory_history, xdf.mid))
    /\ exec_pc' = "returned"
    /\ pc' = IF caller = "direct" THEN "done" ELSE pc
    /\ df' = IF caller = "direct" THEN xdf' ELSE df
    /\ UNCHANGED <<args, quotes, files, caller, i, inventory, cash, inventory_history,
                   cash_history, execution_log, rand>>

(***************************************************************************)
(* main.py, and execution_simulator.py run as a script                     *)
(***************************************************************************)
InitMain ==
    /\ pc = "step1"
    /\ df = NoFrame
    /\ args = <<>>
    /\ quotes = NoFrame
    /\ files = <<>>
    /\ ExecIdle

\* Step 1: df = generate_price_series(); df.to_csv(...)
Step1 ==
    /\ pc = "step1"
    /\ \E r \in ReturnPaths(NMinutes) : df' = generate_price_series(r)
    /\ files' = SetCol(files, "output/simulated_market.csv", df')
    /\ pc' = "step2"
    /\ UNCHANGED <<args, quotes>>
    /\ UNCHANGED execVars

\* Step 2: df['signal'] = generate_momentum_signal(df['mid'], lookback=5); df.to_csv(...)
Step2 ==
    /\ pc = "step2"
    /\ df' = SetCol(df, "signal", generate_momentum_signal(df.mid, lookback))
    /\ files' = SetCol(files, "output/market_with_signal.csv", df')
    /\ pc' = "step3"
    /\ UNCHANGED <<args, quotes>>
    /\ UNCHANGED execVars

\* Step 3: quotes = generate_quotes(df['mid'], df['signal'], zero_inventory); the two
\* columns are assigned; df.to_csv(...)
Step3 ==
    /\ pc = "step3"
    /\ args' = [mid_prices |-> df.mid, signals |-> df.signal,
                inventory |-> Const(Rows(df), 0), base_spread |-> base_spread_default]
    /\ LET q == generate_quotes(args'.mid_prices, args'.signals, args'.inventory,
                                args'.base_spread)
       IN /\ quotes' = q
          /\ df' = SetCol(SetCol(df, "quoted_bid", Reindex(q.bid, Rows(df))),
                          "quoted_ask", Reindex(q.ask, Rows(df)))
    /\ files' = SetCol(files, "output/market_with_quotes.csv", df')
    /\ pc' = "step4"
    /\ UNCHANGED execVars

\* Step 4: df = simulate_execution(df, fill_probability=0.2)
Step4 ==
    /\ pc = "step4"
    /\ exec_pc = "idle"
    /\ IF Binds(simulate_execution_params, {"fill_probability"})
       THEN /\ pc' = "executing"
            /\ exec_pc' = "loop"
            /\ caller' = "direct"
            /\ xdf' = df
       ELSE /\ pc' = "TypeError"
            /\ UNCHANGED <<exec_pc, caller, xdf>>
    /\ UNCHANGED <<i, inventory, cash, inventory_history, cash_history, execution_log, rand>>
    /\ UNCHANGED quoteVars

\* execution_simulator.py as a script: df = pd.read_csv("output/market_with_quotes.csv");
\* df = simulate_execution(df).  The script is run once, after main has ended, on the
\* file main's step 3 wrote.
ScriptStart ==
    /\ "output/market_with_quotes.csv" \in DOMAIN files
    /\ exec_pc = "idle"
    /\ pc = "TypeError"
    /\ exec_pc' = "loop"
    /\ caller' = "script"
    /\ xdf' = files["output/market_with_quotes.csv"]
    /\ i' = 0 /\ inventory' = 0 /\ cash' = 0
    /\ inventory_history' = <<>> /\ cash_history' = <<>>
    /\ execution_log' = <<>> /\ rand' = -1
    /\ UNCHANGED pc
    /\ UNCHANGED quoteVars

\* df.to_csv("executed_trades.csv")
ScriptSave ==
    /\ exec_pc = "returned"
    /\ caller = "script"
    /\ files' = SetCol(files, "executed_trades.csv", xdf)
    /\ exec_pc' = "saved"
    /\ UNCHANGED <<pc, df, args, quotes>>
    /\ UNCHANGED <<caller, xdf, i, inventory, cash, inventory_history, cash_history,
                   execution_log, rand>>

Next == CallQuotes \/ CallExec \/ ExecStep \/ ExecFinish
Spec == Init /\ [][Next]_vars

NextVol == CallQuotes
SpecVol == InitVol /\ [][NextVol]_vars

NextMain == Step1 \/ Step2 \/ Step3 \/ Step4 \/ ScriptStart \/ ExecStep \/ ExecFinish \/ ScriptSave
SpecMain == InitMain /\ [][NextMain]_vars

(***************************************************************************)
(* Properties                                                              *)
(***************************************************************************)
Prev(history, t) == IF t = 1 THEN 0 ELSE history[t - 1]
Count(log, d) == Cardinality({t \in 1..Len(log) : log[t] = d})
QuotesReturned == pc # "quotes" /\ quotes # NoFrame
\* the three inputs of generate_quotes are given and defined at row t
DefinedAt(t) ==
    /\ t \in DOMAIN args.mid_prices /\ ~IsNaN(args.mid_prices[t])
    /\ t \in DOMAIN args.signals /\ ~IsNaN(args.signals[t])
    /\ t \in DOMAIN args.inventory
\* the price the quote formula gives at row t for inventory level v
FormulaPrice(side, t, v) ==
    Val(args.mid_prices[t]) + side * (args.base_spread \div 2)
      - (v * inventory_penalty * (RatioUnit + Val(RollingVolatility(args.mid_prices, t))))
            \div RatioUnit
      + (signal_strength * Val(args.signals[t])) \div RatioUnit
\* the fill probability of one side at logged row t
ProbBidAt(t) == FillProb(FSub(xdf.mid[t], xdf.quoted_bid[t]))
ProbAskAt(t) == FillProb(FSub(xdf.quoted_ask[t], xdf.mid[t]))

\* C1: every logged step changes inventory and cash exactly as its direction says
\* (buy: +1 and -quoted_bid; sell: -1 and +quoted_ask; None: nothing), starting
\* from 0 and 0, so inventory is the number of buys minus the number of sells.
C1_FillAccounting ==
    /\ Len(inventory_history) = i /\ Len(cash_history) = i /\ Len(execution_log) = i
    /\ \A t \in 1..Len(execution_log) :
         /\ execution_log[t] \in {"buy", "sell", "None"}
         /\ execution_log[t] = "buy" =>
               /\ inventory_history[t] = Prev(inventory_history, t) + 1
               /\ ~IsNaN(xdf.quoted_bid[t])
               /\ cash_history[t] = Prev(cash_history, t) - Val(xdf.quoted_bid[t])
         /\ execution_log[t] = "sell" =>
               /\ inventory_history[t] = Prev(inventory_history, t) - 1
               /\ ~IsNaN(xdf.quoted_ask[t])
               /\ cash_history[t] = Prev(cash_history, t) + Val(xdf.quoted_ask[t])
         /\ execution_log[t] = "None" =>
               /\ inventory_history[t] = Prev(inventory_history, t)
               /\ cash_history[t] = Prev(cash_history, t)
    /\ inventory = Count(execution_log, "buy") - Count(execution_log, "sell")
    /\ i > 0 => inventory = inventory_history[i] /\ cash = cash_history[i]

C1_Witness ==
    /\ exec_pc = "returned"
    /\ \E t1, t2, t3 \in 1..Len(execution_log) :
          execution_log[t1] = "buy" /\ execution_log[t2] = "sell" /\ execution_log[t3] = "None"

\* C2: in the returned table pnl[t] = cash[t] + inventory[t] * mid[t], with the cash
\* and inventory recorded after step t (pnl is undefined where mid is).
C2_MarkToMarket ==
    exec_pc = "returned" =>
        /\ xdf.cash = cash_history
        /\ xdf.inventory = inventory_history
        /\ \A t \in 1..Rows(xdf) :
              IF IsNaN(xdf.mid[t]) THEN IsNaN(xdf.pnl[t])
              ELSE xdf.pnl[t] = Num(xdf.cash[t] + xdf.inventory[t] * Val(xdf.mid[t]))

C2_Witness ==
    /\ exec_pc = "returned"
    /\ \E t \in 1..Rows(xdf) :
          /\ ~IsNaN(xdf.mid[t])
          /\ xdf.inventory[t] # 0
          /\ xdf.inventory[t] # xdf.inventory[Rows(xdf)]
          /\ xdf.cash[t] # xdf.cash[Rows(xdf)]

\* C3: with the quotes main computes, the simulator's inventory stays within the
\* position limit after every step.
C3_PositionLimit ==
    \A t \in 1..Len(inventory_history) : Abs(inventory_history[t]) <= max_inventory

\* C4: at a step with exactly one side absent, the absent side never fills and the
\* present side fills exactly when the draw is below its own probability.
C4_AbsentSide ==
    i > 0 =>
        LET bid == xdf.quoted_bid[i]
            ask == xdf.quoted_ask[i]
        IN /\ (IsNaN(ask) /\ ~IsNaN(bid)) =>
                 /\ execution_log[i] # "sell"
                 /\ execution_log[i] = "buy" <=> FLt(Num(rand), ProbBidAt(i))
           /\ (IsNaN(bid) /\ ~IsNaN(ask)) =>
                 /\ execution_log[i] # "buy"
                 /\ execution_log[i] = "sell" <=> FLt(Num(rand), ProbAskAt(i))

\* C5: at a row with defined mid and signal the bid is absent iff
\* inventory[t] >= max_inventory and the ask is absent iff
\* inventory[t] <= -max_inventory; the other side of a flattened quote is the
\* price of the quote formula.
C5_LimitPolicy ==
    QuotesReturned =>
        \A t \in 1..Len(quotes.bid) :
            DefinedAt(t) =>
                /\ IsNaN(quotes.bid[t]) <=> args.inventory[t] >= max_inventory
                /\ IsNaN(quotes.ask[t]) <=> args.inventory[t] <= -max_inventory
                /\ IsNaN(quotes.bid[t]) =>
                      quotes.ask[t] = Num(FormulaPrice(1, t, args.inventory[t]))
                /\ IsNaN(quotes.ask[t]) =>
                      quotes.bid[t] = Num(FormulaPrice(-1, t, args.inventory[t]))

C5_Witness ==
    /\ QuotesReturned
    /\ \E t \in 1..Len(quotes.bid) :
          DefinedAt(t) /\ args.inventory[t] = max_inventory
             /\ IsNaN(quotes.bid[t]) /\ ~IsNaN(quotes.ask[t])
    /\ \E t \in 1..Len(quotes.bid) : DefinedAt(t) /\ args.inventory[t] = 0

\* C6: main's step 4 call is accepted, so the pipeline goes on to its later steps.
C6_PipelineCompletes == pc # "TypeError"

\* C7: a call with malformed input (lengths that differ, a non-finite mid) returns
\* no rows.
MalformedArgs ==
    \/ Len(args.signals) # Len(args.mid_prices)
    \/ Len(args.inventory) # Len(args.mid_prices)
    \/ \E t \in DOMAIN args.mid_prices : IsNaN(args.mid_prices[t])
C7_FailFast ==
    /\ (QuotesReturned /\ MalformedArgs) => Rows(quotes) = 0
    /\ (exec_pc = "returned" /\ \E t \in 1..Rows(xdf) : IsNaN(xdf.mid[t])) =>
           "pnl" \notin DOMAIN xdf

\* the quotes of row t when the inventory of that row is v instead
BidWith(t, v) ==
    LET inv == [args.inventory EXCEPT ![t] = v]
    IN LimitBid(inv, t, RawQuote(-1, args.mid_prices, args.signals, inv, args.base_spread, t))
AskWith(t, v) ==
    LET inv == [args.inventory EXCEPT ![t] = v]
    IN LimitAsk(inv, t, RawQuote(1, args.mid_prices, args.signals, inv, args.base_spread, t))

\* C8 as stated: for any inventories i1 < i2 at a row, bid(i2) < bid(i1) and
\* ask(i2) < ask(i1).
C8_Original ==
    QuotesReturned =>
        \A t \in 1..Len(quotes.bid) : \A i2 \in (-InvMax)..InvMax :
            (DefinedAt(t) /\ args.inventory[t] < i2) =>
                /\ FLt(BidWith(t, i2), quotes.bid[t])
                /\ FLt(AskWith(t, i2), quotes.ask[t])

\* C8 amended: for i1 < i2, bid(i2) < bid(i1) when i2 < max_inventory and
\* ask(i2) < ask(i1) when i1 > -max_inventory; at the limit the flattened side is
\* absent and is not below any price.
C8_MonotonicSkew ==
    QuotesReturned =>
        \A t \in 1..Len(quotes.bid) : \A i2 \in (-InvMax)..InvMax :
            (DefinedAt(t) /\ args.inventory[t] < i2) =>
                /\ i2 < max_inventory => FLt(BidWith(t, i2), quotes.bid[t])
                /\ args.inventory[t] > -max_inventory => FLt(AskWith(t, i2), quotes.ask[t])
                /\ i2 >= max_inventory => IsNaN(BidWith(t, i2))
                /\ args.inventory[t] <= -max_inventory => IsNaN(quotes.ask[t])

C8_Witness ==
    /\ QuotesReturned
    /\ \E t \in 1..Len(quotes.bid) :
          /\ Val(RollingVolatility(args.mid_prices, t)) > 0
          /\ args.inventory[t] = max_inventory - 2
          /\ FLt(BidWith(t, max_inventory - 1), quotes.bid[t])
          /\ IsNaN(BidWith(t, max_inventory))

\* C9: at a row with inventory 0, signal 0 and zero rolling volatility (the first
\* window - 1 rows, whose rolling std is undefined, included) bid = mid - base_spread/2
\* and ask = mid + base_spread/2, so ask - bid = base_spread.
C9_ZeroSkewQuote ==
    QuotesReturned =>
        \A t \in 1..Len(quotes.bid) :
            (/\ DefinedAt(t)
             /\ args.inventory[t] = 0
             /\ args.signals[t] = Num(0)
             /\ (t < window \/ RollingStdRaw(args.mid_prices, window, t) = Num(0))) =>
                /\ quotes.bid[t] = Num(Val(args.mid_prices[t]) - args.base_spread \div 2)
                /\ quotes.ask[t] = Num(Val(args.mid_prices[t]) + args.base_spread \div 2)
                /\ FSub(quotes.ask[t], quotes.bid[t]) = Num(args.base_spread)

\* mid = 100.0 for 5 rows, base_spread = 0.05: bid = 99.975 and ask = 100.025
C9_Witness ==
    /\ QuotesReturned
    /\ args.mid_prices = Const(ShortLen, Num(initial_price))
    /\ args.signals = Const(ShortLen, Num(0))
    /\ args.inventory = Const(ShortLen, 0)
    /\ args.base_spread = base_spread_default
    /\ quotes.bid = Const(ShortLen, Num(99975000))
    /\ quotes.ask = Const(ShortLen, Num(100025000))

\* C10: at a step with both quotes present one draw selects one outcome, the ask
\* first: sell iff draw < prob_ask, buy iff prob_ask <= draw < prob_ask + prob_bid,
\* None iff draw >= prob_ask + prob_bid; inventory moves by at most one, and None
\* occurs only where prob_ask + prob_bid < 1.
C10_SingleDraw ==
    (i > 0 /\ ~IsNaN(xdf.quoted_bid[i]) /\ ~IsNaN(xdf.quoted_ask[i]) /\ ~IsNaN(xdf.mid[i])) =>
        LET pa == Val(ProbAskAt(i))
            pb == Val(ProbBidAt(i))
        IN /\ rand \in 0..(RatioUnit - 1)
           /\ execution_log[i] = "sell" <=> rand < pa
           /\ execution_log[i] = "buy" <=> (pa <= rand /\ rand < pa + pb)
           /\ execution_log[i] = "None" <=> rand >= pa + pb
           /\ Abs(inventory_history[i] - Prev(inventory_history, i)) <= 1
           /\ execution_log[i] = "None" => pa + pb < RatioUnit

C10_Witness ==
    /\ i > 1
    /\ ~IsNaN(xdf.quoted_bid[i]) /\ ~IsNaN(xdf.quoted_ask[i])
    /\ ~IsNaN(xdf.quoted_bid[i - 1]) /\ ~IsNaN(xdf.quoted_ask[i - 1])
    /\ execution_log[i] = "None"
    /\ execution_log[i - 1] = "buy"

====
